---------------------------- MODULE Spec2Model ----------------------------
(***************************************************************************)
(* Model of all_agents_tutorials/self_improving_agent.ipynb: the           *)
(* SelfImprovingAgent object (store, insights), its three methods respond, *)
(* reflect and learn, and the helper functions they call.  The language    *)
(* model is an external collaborator: each call either returns one text    *)
(* of Completions or raises.  Texts are strings; prompt templates and the  *)
(* f-string of learn are string concatenations.                            *)
(***************************************************************************)
EXTENDS Integers, Sequences, FiniteSets, TLC

VARIABLES store, insights, last, calls

vars == <<store, insights, last, calls>>

(* ------------------------------ bounds --------------------------------- *)

\* The caller stops calling the agent once this many calls have succeeded.
MaxCalls == 3

\* Session ids the caller uses ("user_123" is the example cell's id).
SessionIds == {"user_123", "s2"}

\* Texts the caller sends to respond.
HumanInputs == {"Hi", "More"}

\* Texts the language model may return.
Completions == {"T1", "T2"}

(* --------------------------- messages ---------------------------------- *)

HumanMessage(text) == [type |-> "human", content |-> text]

AIMessage(text) == [type |-> "ai", content |-> text]

SystemMessage(text) == [type |-> "system", content |-> text]

(* --------------------------- session store ----------------------------- *)

\* Variant: a fresh ChatMessageHistory is stored on every call.
get_chat_history_fresh(st, session_id) ==
    [s \in DOMAIN st \cup {session_id} |-> IF s = session_id THEN <<>> ELSE st[s]]

\* get_chat_history: the store after the call (an absent id gets an empty
\* ChatMessageHistory); the returned history is the entry of sid in it.
get_chat_history(st, session_id) ==
    IF session_id \in DOMAIN st THEN st ELSE st @@ (session_id :> <<>>)

\* Variant: the message is added to the history of every session.
add_ai_message_everywhere(st, session_id, text) ==
    [s \in DOMAIN st |-> Append(st[s], AIMessage(text))]

\* ChatMessageHistory.add_ai_message on the history of session_id.
add_ai_message(st, session_id, text) ==
    [st EXCEPT ![session_id] = Append(@, AIMessage(text))]

(* --------------------------- prompt templates -------------------------- *)

ResponseSystemText ==
    "You are a self-improving AI assistant. Learn from your interactions and improve your performance over time."

InsightsNotePrefix == "Recent insights for improvement: "

\* Variant: the trailing note does not interpolate {insights}.
prompt_without_insights(history, input, ins) ==
    <<SystemMessage(ResponseSystemText)>> \o history
        \o <<HumanMessage(input), SystemMessage(InsightsNotePrefix)>>

\* self.prompt formatted with history, {input} and {insights}.
prompt(history, input, ins) ==
    <<SystemMessage(ResponseSystemText)>> \o history
        \o <<HumanMessage(input), SystemMessage(InsightsNotePrefix \o ins)>>

ReflectionSystemText ==
    "Based on the following conversation history, provide insights on how to improve responses:"

ReflectionRequestText == "Generate insights for improvement:"

\* reflection_prompt formatted with history.
reflection_prompt(history) ==
    <<SystemMessage(ReflectionSystemText)>> \o history
        \o <<HumanMessage(ReflectionRequestText)>>

LearningSystemText ==
    "Based on these insights, update the agent's knowledge and behavior:"

LearningRequestText == "Summarize the key points to remember:"

\* learning_prompt formatted with {insights}.
learning_prompt(ins) ==
    <<SystemMessage(LearningSystemText), HumanMessage(ins),
      HumanMessage(LearningRequestText)>>

LearnedMarker == "[SYSTEM] Agent learned: "

\* Variant: the learned points are stored without the marker.
learned_text_unmarked(learned_points) == learned_points

\* The f-string of learn.
learned_text(learned_points) == LearnedMarker \o learned_points

(* ------------------ RunnableWithMessageHistory ------------------------- *)

\* Variant: the input message is saved before the chain runs.
chain_with_history_enter_saving_input(st, session_id, human_input) ==
    [get_chat_history(st, session_id) EXCEPT ![session_id] =
        Append(@, HumanMessage(human_input))]

\* Before the chain runs: the session's history is fetched through the
\* factory lambda (get_chat_history); nothing is written yet.
chain_with_history_enter(st, session_id, human_input) ==
    get_chat_history(st, session_id)

\* Variant: only the output message is saved.
chain_with_history_exit_output_only(st, session_id, human_input, content) ==
    [st EXCEPT ![session_id] = Append(@, AIMessage(content))]

\* After the chain returned: the input message and the output message are
\* added to the session's history, in this order.
chain_with_history_exit(st, session_id, human_input, content) ==
    [st EXCEPT ![session_id] =
        @ \o <<HumanMessage(human_input), AIMessage(content)>>]

(* --------------------------- helper functions -------------------------- *)

\* Variant: the insights argument is dropped.
generate_response_insights_empty(ins) == ""

\* What generate_response passes as the "insights" key of the chain input.
generate_response_insights(ins) == ins

\* generate_response when the model returns content.
generate_response(st, human_input, session_id, ins, content) ==
    LET st1 == chain_with_history_enter(st, session_id, human_input)
    IN  [store  |-> chain_with_history_exit(st1, session_id, human_input, content),
         prompt |-> prompt(st1[session_id], human_input,
                           generate_response_insights(ins)),
         ret    |-> content]

\* generate_response when the model call raises.
generate_response_raises(st, human_input, session_id, ins) ==
    LET st1 == chain_with_history_enter(st, session_id, human_input)
    IN  [store  |-> st1,
         prompt |-> prompt(st1[session_id], human_input,
                           generate_response_insights(ins))]

\* Variant: the reflection is recorded in the session's history.
reflect_recording(st, session_id, content) ==
    LET st1 == get_chat_history(st, session_id)
    IN  [store  |-> add_ai_message(st1, session_id, content),
         prompt |-> reflection_prompt(st1[session_id]),
         ret    |-> content]

\* reflect when the model returns content (also the store and the prompt
\* of the raising case: the history is fetched before the model is called).
reflect(st, session_id, content) ==
    LET st1 == get_chat_history(st, session_id)
    IN  [store  |-> st1,
         prompt |-> reflection_prompt(st1[session_id]),
         ret    |-> content]

\* Variant: the learned points are returned but not added to the history.
learn_not_recording(st, session_id, ins, learned_points) ==
    [store  |-> get_chat_history(st, session_id),
     prompt |-> learning_prompt(ins),
     ret    |-> learned_points]

\* learn when the model returns learned_points.
learn(st, session_id, ins, learned_points) ==
    [store  |-> add_ai_message(get_chat_history(st, session_id), session_id,
                               learned_text(learned_points)),
     prompt |-> learning_prompt(ins),
     ret    |-> learned_points]

(* --------------------------- agent methods ----------------------------- *)

\* self.insights after self.reflect got content from reflect.
SelfImprovingAgent_reflect(ins, content) == content

\* Variant: self.learn stores the value learn returns.
SelfImprovingAgent_learn_stores_learned(ins, reflection, learned_points) ==
    learned_points

\* self.insights after self.learn: set by its self.reflect call, and not
\* touched by the value learn returns.
SelfImprovingAgent_learn(ins, reflection, learned_points) ==
    SelfImprovingAgent_reflect(ins, reflection)

NoCall == [op |-> "none", sid |-> "", input |-> "", outcome |-> "ok",
           ret |-> "", prompts |-> <<>>]

Init ==
    /\ store = <<>>
    /\ insights = ""
    /\ last = NoCall
    /\ calls = <<>>

CanCall == Len(calls) < MaxCalls

\* agent.respond(human_input, session_id) returns content.
Respond(session_id, human_input, content) ==
    /\ CanCall
    /\ LET r == generate_response(store, human_input, session_id, insights, content)
       IN  /\ store' = r.store
           /\ last' = [op |-> "respond", sid |-> session_id, input |-> human_input,
                       outcome |-> "ok", ret |-> r.ret, prompts |-> <<r.prompt>>]
           /\ calls' = Append(calls, [op |-> "respond", sid |-> session_id,
                                      input |-> human_input, ret |-> r.ret])
    /\ UNCHANGED insights

\* agent.respond raises: the model call failed.
RespondFail(session_id, human_input) ==
    /\ CanCall
    /\ LET r == generate_response_raises(store, human_input, session_id, insights)
       IN  /\ store' = r.store
           /\ last' = [op |-> "respond", sid |-> session_id, input |-> human_input,
                       outcome |-> "error", ret |-> "", prompts |-> <<r.prompt>>]
    /\ UNCHANGED <<insights, calls>>

\* agent.reflect(session_id) returns content.
Reflect(session_id, content) ==
    /\ CanCall
    /\ LET r == reflect(store, session_id, content)
       IN  /\ store' = r.store
           /\ insights' = SelfImprovingAgent_reflect(insights, r.ret)
           /\ last' = [op |-> "reflect", sid |-> session_id, input |-> "",
                       outcome |-> "ok", ret |-> insights', prompts |-> <<r.prompt>>]
           /\ calls' = Append(calls, [op |-> "reflect", sid |-> session_id,
                                      input |-> "", ret |-> insights'])

\* agent.reflect raises: the model call failed, self.insights is not assigned.
ReflectFail(session_id) ==
    /\ CanCall
    /\ LET r == reflect(store, session_id, "")
       IN  /\ store' = r.store
           /\ last' = [op |-> "reflect", sid |-> session_id, input |-> "",
                       outcome |-> "error", ret |-> "", prompts |-> <<r.prompt>>]
    /\ UNCHANGED <<insights, calls>>

\* agent.learn(session_id) returns learned_points.
Learn(session_id, reflection, learned_points) ==
    /\ CanCall
    /\ LET r == reflect(store, session_id, reflection)
           ins1 == SelfImprovingAgent_reflect(insights, r.ret)
           l == learn(r.store, session_id, ins1, learned_points)
       IN  /\ store' = l.store
           /\ insights' = SelfImprovingAgent_learn(insights, r.ret, l.ret)
           /\ last' = [op |-> "learn", sid |-> session_id, input |-> "",
                       outcome |-> "ok", ret |-> l.ret,
                       prompts |-> <<r.prompt, l.prompt>>]
           /\ calls' = Append(calls, [op |-> "learn", sid |-> session_id,
                                      input |-> "", ret |-> l.ret])

\* agent.learn raises in its self.reflect call.
LearnFailReflect(session_id) ==
    /\ CanCall
    /\ LET r == reflect(store, session_id, "")
       IN  /\ store' = r.store
           /\ last' = [op |-> "learn", sid |-> session_id, input |-> "",
                       outcome |-> "error", ret |-> "", prompts |-> <<r.prompt>>]
    /\ UNCHANGED <<insights, calls>>

\* agent.learn raises in the model call of learn, after self.reflect returned.
LearnFailSummarise(session_id, reflection) ==
    /\ CanCall
    /\ LET r == reflect(store, session_id, reflection)
           ins1 == SelfImprovingAgent_reflect(insights, r.ret)
       IN  /\ store' = r.store
           /\ insights' = ins1
           /\ last' = [op |-> "learn", sid |-> session_id, input |-> "",
                       outcome |-> "error", ret |-> "",
                       prompts |-> <<r.prompt, learning_prompt(ins1)>>]
    /\ UNCHANGED calls

Next ==
    \/ \E s \in SessionIds, h \in HumanInputs, c \in Completions : Respond(s, h, c)
    \/ \E s \in SessionIds, h \in HumanInputs : RespondFail(s, h)
    \/ \E s \in SessionIds, c \in Completions : Reflect(s, c)
    \/ \E s \in SessionIds : ReflectFail(s)
    \/ \E s \in SessionIds, r \in Completions, l \in Completions : Learn(s, r, l)
    \/ \E s \in SessionIds : LearnFailReflect(s)
    \/ \E s \in SessionIds, r \in Completions : LearnFailSummarise(s, r)

Spec == Init /\ [][Next]_vars

(* ------------------- observations used by the properties --------------- *)

\* The transcript of a session as get_chat_history would return it.
Transcript(st, s) == IF s \in DOMAIN st THEN st[s] ELSE <<>>

IsPrefix(a, b) == Len(a) <= Len(b) /\ SubSeq(b, 1, Len(a)) = a

HasPrefix(text, prefix) ==
    Len(prefix) <= Len(text) /\ SubSeq(text, 1, Len(prefix)) = prefix

StripPrefix(text, prefix) == SubSeq(text, Len(prefix) + 1, Len(text))

\* The trailing message of a response prompt.
TrailingNote(p) == p[Len(p)]

\* The insights text embedded in the trailing system note of a response prompt.
NoteInsights(p) == StripPrefix(TrailingNote(p).content, InsightsNotePrefix)

\* The history embedded in a response prompt / in a reflection prompt.
ResponsePromptHistory(p) == SubSeq(p, 2, Len(p) - 2)

ReflectionPromptHistory(p) == SubSeq(p, 2, Len(p) - 1)

\* The insights text a learn call handed to the Learner (second prompt).
LearnerInput(call) == call.prompts[2][2].content

\* The last call recorded in last was made by the step just taken.
Called(op) == last' # last /\ last'.op = op

Succeeded(op) == Called(op) /\ last'.outcome = "ok"

\* The turns one successful call contributes to its session's transcript.
TurnsOf(c) ==
    IF c.op = "respond" THEN <<HumanMessage(c.input), AIMessage(c.ret)>>
    ELSE IF c.op = "learn" THEN <<AIMessage(LearnedMarker \o c.ret)>>
    ELSE <<>>

RECURSIVE Expected(_, _)
\* Concatenation, in call order, of the turns of the calls made on session s.
Expected(cs, s) ==
    IF cs = <<>> THEN <<>>
    ELSE LET n == Len(cs)
         IN  Expected(SubSeq(cs, 1, n - 1), s)
                \o (IF cs[n].sid = s THEN TurnsOf(cs[n]) ELSE <<>>)

CallsOn(s, op) == {i \in 1..Len(calls) : calls[i].sid = s /\ calls[i].op = op}

\* The successful calls made before the call recorded in last.
PriorCalls ==
    IF last.op # "none" /\ last.outcome = "ok"
    THEN SubSeq(calls, 1, Len(calls) - 1) ELSE calls

(* ------------------------------- C2 ------------------------------------ *)

OnlyResponds(s) == \A i \in 1..Len(calls) : calls[i].sid = s => calls[i].op = "respond"

CallsOfSession(s) == SelectSeq(calls, LAMBDA c : c.sid = s)

\* C2: a session on which only respond has succeeded N times (N >= 0) has a
\* transcript of length exactly 2N: for the k-th respond, turn 2k-1 is the
\* human turn of that call and turn 2k the agent turn the call returned.
C2_RespondOnlyTranscript ==
    \A s \in SessionIds :
        OnlyResponds(s) =>
            LET rs == CallsOfSession(s)
                t == Transcript(store, s)
            IN  /\ Len(t) = 2 * Len(rs)
                /\ \A k \in 1..Len(rs) :
                      /\ t[2 * k - 1] = HumanMessage(rs[k].input)
                      /\ t[2 * k] = AIMessage(rs[k].ret)

C2_Witness ==
    \E s \in SessionIds :
        /\ OnlyResponds(s)
        /\ Len(CallsOfSession(s)) = 2
        /\ Len(Transcript(store, s)) = 4
        /\ store[s][1].content # store[s][3].content

(* ------------------------------- C4 ------------------------------------ *)

\* C4: a successful learn appends exactly one turn to its session's
\* transcript; the turn's text is the fixed marker followed by the learned
\* text, and the value learn returns is that text with the marker removed.
C4_LearnAppendsOneMarkedTurn ==
    [][Succeeded("learn") =>
          LET t0 == Transcript(store, last'.sid)
              t1 == Transcript(store', last'.sid)
          IN  /\ Len(t1) = Len(t0) + 1
              /\ SubSeq(t1, 1, Len(t0)) = t0
              /\ t1[Len(t1)].type = "ai"
              /\ HasPrefix(t1[Len(t1)].content, LearnedMarker)
              /\ StripPrefix(t1[Len(t1)].content, LearnedMarker) = last'.ret]_vars

C4_Witness ==
    /\ last.op = "learn" /\ last.outcome = "ok"
    /\ Len(store[last.sid]) = 3
    /\ store[last.sid][3] = AIMessage(LearnedMarker \o last.ret)

(* ------------------------------- C5 ------------------------------------ *)

\* C5: reflect, whether the model call succeeds or fails, leaves the
\* transcript of every session equal to what it was before the call.
C5_ReflectKeepsTranscripts ==
    [][Called("reflect") =>
          \A s \in SessionIds : Transcript(store', s) = Transcript(store, s)]_vars

C5_Witness ==
    /\ last.op = "reflect" /\ last.outcome = "ok"
    /\ Len(Transcript(store, last.sid)) = 2
    /\ ReflectionPromptHistory(last.prompts[1]) = store[last.sid]

(* ------------------------------- C7 ------------------------------------ *)

\* C7: every call leaves an entry for its session id in the store, created
\* empty when it was absent; no step removes an entry, and the transcript an
\* entry held before a step is a prefix of the one it holds after.
C7_StoreGrowsAppendOnly ==
    [][/\ DOMAIN store \subseteq DOMAIN store'
       /\ \A s \in DOMAIN store : IsPrefix(store[s], store'[s])
       /\ last'.sid \in DOMAIN store'
       /\ \A s \in DOMAIN store' \ DOMAIN store :
             /\ s = last'.sid
             /\ store'[s] = IF last'.outcome = "ok" /\ last'.op # "reflect"
                            THEN TurnsOf([op |-> last'.op, sid |-> s,
                                          input |-> last'.input, ret |-> last'.ret])
                            ELSE <<>>]_vars

C7_Witness ==
    /\ DOMAIN store = SessionIds
    /\ \E a \in SessionIds, b \in SessionIds :
          /\ a # b
          /\ store[a] = <<>>
          /\ Len(store[b]) = 3
          /\ last.sid = b /\ last.op = "respond"

(* ------------------------------- C8 ------------------------------------ *)

\* C8: for every session, the transcript is the concatenation, in call
\* order, of one (human, agent) pair per successful respond and one
\* marker-prefixed learned turn per successful learn, reflect adding nothing;
\* its length is 2 * responds + learns; and the history put into the first
\* prompt of the latest call is the transcript built by the calls before it.
C8_TranscriptIsCallHistory ==
    /\ \A s \in SessionIds :
          /\ Transcript(store, s) = Expected(calls, s)
          /\ Len(Transcript(store, s)) =
                2 * Cardinality(CallsOn(s, "respond")) + Cardinality(CallsOn(s, "learn"))
    /\ last.op = "respond" =>
          ResponsePromptHistory(last.prompts[1]) = Expected(PriorCalls, last.sid)
    /\ last.op \in {"reflect", "learn"} =>
          ReflectionPromptHistory(last.prompts[1]) = Expected(PriorCalls, last.sid)

C8_Witness ==
    /\ Len(calls) = 3
    /\ calls[1].op = "respond" /\ calls[2].op = "learn" /\ calls[3].op = "respond"
    /\ \A i \in 1..3 : calls[i].sid = last.sid
    /\ Len(store[last.sid]) = 5
    /\ ResponsePromptHistory(last.prompts[1])[3] = AIMessage(LearnedMarker \o calls[2].ret)

(* ------------------------------- C10 ----------------------------------- *)

\* C10: a respond, reflect or learn on one session leaves every other
\* session as it was: present in the store or not, and its transcript.
C10_OtherSessionsUntouched ==
    [][\A b \in SessionIds :
          b # last'.sid =>
             /\ (b \in DOMAIN store') = (b \in DOMAIN store)
             /\ b \in DOMAIN store => store'[b] = store[b]]_vars

C10_Witness ==
    \E a \in SessionIds, b \in SessionIds :
        /\ a # b
        /\ last.sid = a /\ last.op = "learn" /\ last.outcome = "ok"
        /\ b \in DOMAIN store /\ Len(store[b]) = 2
        /\ Len(store[a]) = 1


(* ------------------------------- C1 ------------------------------------ *)

\* C1 as stated: the response prompt built right after a successful learn
\* carries, in its trailing system note, the text that learn returned.
C1_NoteIsLearnedText ==
    [][(last.op = "learn" /\ last.outcome = "ok" /\ Called("respond")) =>
          NoteInsights(last'.prompts[1]) = last.ret]_vars

\* C1: the response prompt built right after a successful learn ends with a
\* system note made of the fixed note prefix followed by the reflection text
\* that learn's own reflect step produced and handed to the Learner; the
\* text learn returned reaches that prompt as the session's learned turn.
C1_NoteIsReflectionOfLearn ==
    [][(last.op = "learn" /\ last.outcome = "ok" /\ Called("respond")) =>
          /\ TrailingNote(last'.prompts[1]).type = "system"
          /\ HasPrefix(TrailingNote(last'.prompts[1]).content, InsightsNotePrefix)
          /\ NoteInsights(last'.prompts[1]) = LearnerInput(last)
          /\ last'.sid = last.sid =>
                LET h == ResponsePromptHistory(last'.prompts[1])
                IN  h[Len(h)] = AIMessage(LearnedMarker \o last.ret)]_vars

C1_Witness ==
    /\ last.op = "respond" /\ last.outcome = "ok"
    /\ Len(calls) >= 2
    /\ calls[Len(calls) - 1].op = "learn"
    /\ calls[Len(calls) - 1].sid = last.sid
    /\ NoteInsights(last.prompts[1]) # calls[Len(calls) - 1].ret
    /\ NoteInsights(last.prompts[1]) \in Completions

(* ------------------------------- C3 ------------------------------------ *)

\* C3: insights is one value for the whole agent: the response prompt built
\* for session B right after a successful learn on another session A embeds,
\* in its trailing note, the insights value that the learn on A set.
C3_InsightsSharedAcrossSessions ==
    [][(last.op = "learn" /\ last.outcome = "ok" /\ Called("respond")
            /\ last'.sid # last.sid) =>
          /\ insights = LearnerInput(last)
          /\ NoteInsights(last'.prompts[1]) = insights]_vars

C3_Witness ==
    /\ last.op = "respond"
    /\ Len(calls) >= 2
    /\ calls[Len(calls) - 1].op = "learn"
    /\ calls[Len(calls) - 1].sid # last.sid
    /\ PriorCalls = SubSeq(calls, 1, Len(calls) - 1)
    /\ Expected(PriorCalls, last.sid) = <<>>
    /\ NoteInsights(last.prompts[1]) \in Completions

(* ------------------------------- C6 ------------------------------------ *)

\* C6 as stated: respond and a standalone reflect leave insights unchanged.
C6_OnlyLearnWritesInsights ==
    [][(Called("respond") \/ Called("reflect")) => insights' = insights]_vars

\* The reflect step of the call made by the step just taken returned.
ReflectionReturned ==
    \/ Succeeded("reflect")
    \/ Called("learn") /\ Len(last'.prompts) = 2

\* The text that reflect step returned.
ReflectionText ==
    IF last'.op = "reflect" THEN last'.ret ELSE LearnerInput(last')

\* C6: insights is initially empty and is overwritten only by a reflect
\* step that returned (agent.reflect, or the reflect inside agent.learn), with
\* the reflection text; respond leaves it unchanged, and every response
\* prompt embeds the value it has at the time of the call.
C6_OnlyReflectWritesInsights ==
    /\ insights = ""
    /\ [][/\ ReflectionReturned => insights' = ReflectionText
          /\ ~ReflectionReturned => insights' = insights
          /\ Called("respond") => NoteInsights(last'.prompts[1]) = insights]_vars

C6_Witness ==
    /\ last.op = "reflect" /\ last.outcome = "ok"
    /\ Len(calls) = 3
    /\ calls[1].op = "learn" /\ calls[2].op = "respond"
    /\ insights = last.ret
    /\ insights # calls[1].ret

(* ------------------------------- C9 ------------------------------------ *)

\* C9 as stated: a call that fails leaves every transcript and insights
\* equal to what they were before the call.
C9_FailedCallChangesNothing ==
    [][(last' # last /\ last'.outcome = "error") =>
          /\ insights' = insights
          /\ \A s \in SessionIds : Transcript(store', s) = Transcript(store, s)]_vars

\* C9: a call that fails makes no second attempt and leaves every
\* transcript equal to what it was before the call (a session referenced for
\* the first time gets an empty one); insights is unchanged too, except when
\* agent.learn fails in its summarising call: then insights is the text its
\* reflect step returned.
C9_FailedCallKeepsTranscripts ==
    [][(last' # last /\ last'.outcome = "error") =>
          /\ \A s \in SessionIds : Transcript(store', s) = Transcript(store, s)
          /\ calls' = calls
          /\ Len(last'.prompts) = (IF last'.op = "learn" /\ insights' # insights
                                    THEN 2 ELSE Len(last'.prompts))
          /\ Len(last'.prompts) <= (IF last'.op = "learn" THEN 2 ELSE 1)
          /\ IF last'.op = "learn" /\ Len(last'.prompts) = 2
             THEN insights' = LearnerInput(last')
             ELSE insights' = insights]_vars

C9_Witness ==
    /\ last.op = "learn" /\ last.outcome = "error"
    /\ Len(last.prompts) = 2
    /\ Len(calls) = 2
    /\ calls[1].op = "respond" /\ calls[2].op = "reflect"
    /\ calls[1].sid = last.sid /\ calls[2].sid = last.sid
    /\ insights = LearnerInput(last)
    /\ insights # calls[2].ret
    /\ Len(store[last.sid]) = 2


=============================================================================
